---- MODULE Spec2Model ----
(***************************************************************************)
(* Model of the image-classification core of the mangrove AI service:      *)
(*   backend/python/ai_service.py  (FastAPI service, heuristic v2)         *)
(*   backend/python/ai_worker.py   (stdin/stdout worker, heuristic v1)     *)
(*                                                                         *)
(* Numbers.  Ratios, scores and confidences are fixed-point integers in    *)
(* units of 1/Scale (1e-4): 0.4 is 4000, 0.95 is 9500.  Luminance is kept  *)
(* in tenths, textureVariance and edgeDensity in hundredths.  Python       *)
(* rounds a float by its binary value; an exact decimal tie of a score is  *)
(* rounded to even here, and no property below depends on how such a tie   *)
(* falls.  The batch statistics (the sum of the confidences, their mean,   *)
(* its comparison with 0.6 and its rounding) are computed in binary64, bit *)
(* for bit as the interpreter computes them.                               *)
(***************************************************************************)
EXTENDS Integers, Sequences, FiniteSets, TLC

VARIABLES
    models,     \* ai_service.py: the global model registry (a dict)
    pc,         \* position of the lifespan coroutine of the service
    inbox,      \* the one message in flight: an HTTP request or a worker payload
    handled,    \* TRUE once the message in flight has been answered
    ready,      \* what models.get("initialized", False) returned to the handler
    analysed,   \* the paths handed to analyze_image_heuristic by the handler
    response    \* the answer: HTTP response, or the worker's stdout and exit

vars == <<models, pc, inbox, handled, ready, analysed, response>>

(***************************************************************************)
(* Bounds of the model                                                     *)
(***************************************************************************)
\* longest path list of a request
MaxBatch == 3
\* largest width and height of a raster given pixel by pixel
MaxSide == 2
\* longest run of one file in a long path list
MaxCopies == 31

(***************************************************************************)
(* Fixed-point arithmetic                                                  *)
(***************************************************************************)
\* one unit of a ratio, score or confidence is 1/Scale
Scale == 10000

Min(a, b) == IF a < b THEN a ELSE b

Max(a, b) == IF a > b THEN a ELSE b

Abs(a) == IF a < 0 THEN 0 - a ELSE a

\* round(x, 3) of a value in 1e-4 units: nearest multiple of 10, ties to even
Round3(x) ==
    LET q == x \div 10
        r == x % 10
    IN  IF r < 5 THEN 10 * q
        ELSE IF r > 5 THEN 10 * (q + 1)
        ELSE IF q % 2 = 0 THEN 10 * q ELSE 10 * (q + 1)

RECURSIVE SumOver(_, _)
\* sum of weight[x] over the elements x of the finite set S
SumOver(S, weight) ==
    IF S = {} THEN 0
    ELSE LET x == CHOOSE y \in S : TRUE
         IN  weight[x] + SumOver(S \ {x}, weight)

(***************************************************************************)
(* binary64 arithmetic                                                     *)
(*   A Python float is kept exactly: it is the natural number of units of  *)
(*   2^-FracBits it holds, written in NLimbs limbs of LimbBits bits, the   *)
(*   least significant limb first. Every float the batch statistics meet   *)
(*   lies in {0} \cup [2^-10, 2^31), where a binary64 is a whole number of *)
(*   such units.                                                           *)
(***************************************************************************)
LimbBits == 16

Limb == 2 ^ LimbBits

NLimbs == 6

FracBits == 4 * LimbBits

\* significand width of binary64
Precision == 53

BigZero == [i \in 1..NLimbs |-> 0]

RECURSIVE BigAddFrom(_, _, _, _)
BigAddFrom(a, b, i, carry) ==
    IF i > NLimbs THEN <<>>
    ELSE <<(a[i] + b[i] + carry) % Limb>>
         \o BigAddFrom(a, b, i + 1, (a[i] + b[i] + carry) \div Limb)

\* a + b, exactly
BigAdd(a, b) == BigAddFrom(a, b, 1, 0)

RECURSIVE BigMulFrom(_, _, _, _)
BigMulFrom(a, m, i, carry) ==
    IF i > NLimbs THEN <<>>
    ELSE <<(a[i] * m + carry) % Limb>>
         \o BigMulFrom(a, m, i + 1, (a[i] * m + carry) \div Limb)

\* a * m, exactly, for 0 <= m < 2^15
BigMulSmall(a, m) == BigMulFrom(a, m, 1, 0)

RECURSIVE Remainders(_, _, _, _)
\* long division from the top limb down: rems[j] is the remainder carried
\* into limb NLimbs + 1 - j
Remainders(a, d, i, rems) ==
    IF i = 0 THEN rems
    ELSE Remainders(a, d, i - 1,
                    Append(rems, (rems[Len(rems)] * Limb + a[i]) % d))

\* floor(a / d) and a mod d, for 0 < d < 2^15
BigDivSmall(a, d) ==
    LET rems == Remainders(a, d, NLimbs, <<0>>)
    IN  [quot |-> [i \in 1..NLimbs |->
                      (rems[NLimbs + 1 - i] * Limb + a[i]) \div d],
         rem |-> rems[NLimbs + 1]]

RECURSIVE BigGreaterFrom(_, _, _)
BigGreaterFrom(a, b, i) ==
    IF i = 0 THEN FALSE
    ELSE IF a[i] # b[i] THEN a[i] > b[i]
    ELSE BigGreaterFrom(a, b, i - 1)

\* a > b
BigGreater(a, b) == BigGreaterFrom(a, b, NLimbs)

RECURSIVE SmallBitLength(_)
SmallBitLength(n) ==
    IF n = 0 THEN 0
    ELSE IF n >= 256 THEN 8 + SmallBitLength(n \div 256)
    ELSE 1 + SmallBitLength(n \div 2)

RECURSIVE BitLengthFrom(_, _)
BitLengthFrom(a, i) ==
    IF i = 0 THEN 0
    ELSE IF a[i] # 0 THEN LimbBits * (i - 1) + SmallBitLength(a[i])
    ELSE BitLengthFrom(a, i - 1)

\* number of bits of a, 0 for zero
BitLength(a) == BitLengthFrom(a, NLimbs)

\* bit j of a, bit 0 being the least significant
Bit(a, j) == (a[j \div LimbBits + 1] \div (2 ^ (j % LimbBits))) % 2

\* some bit of a below bit j is set
AnyBitBelow(a, j) ==
    \/ a[j \div LimbBits + 1] % (2 ^ (j % LimbBits)) # 0
    \/ \E i \in 1..(j \div LimbBits) : a[i] # 0

\* 2^r
BigPow2(r) ==
    [i \in 1..NLimbs |-> IF i = r \div LimbBits + 1 THEN 2 ^ (r % LimbBits) ELSE 0]

\* a with its bits below bit r cleared
Truncate(a, r) ==
    [i \in 1..NLimbs |->
        IF i <= r \div LimbBits THEN 0
        ELSE IF i = r \div LimbBits + 1 THEN a[i] - (a[i] % (2 ^ (r % LimbBits)))
        ELSE a[i]]

\* the multiple of 2^r nearest to x, ties to the even multiple, where x is a
\* plus a fraction of a unit that is nonzero exactly when sticky; r >= 1
RoundAt(a, r, sticky) ==
    IF Bit(a, r - 1) = 1 /\ (sticky \/ AnyBitBelow(a, r - 1) \/ Bit(a, r) = 1)
    THEN BigAdd(Truncate(a, r), BigPow2(r))
    ELSE Truncate(a, r)

\* the binary64 nearest to a (plus a fraction of a unit when sticky):
\* IEEE 754 round-to-nearest-even at Precision significant bits
RoundToDouble(a, sticky) ==
    LET excess == BitLength(a) - Precision
    IN  IF excess <= 0 THEN a ELSE RoundAt(a, excess, sticky)

\* the binary64 nearest to c / Scale
NearestFloat(c) ==
    LET d == BigDivSmall([i \in 1..NLimbs |->
                             IF i = FracBits \div LimbBits + 1 THEN c ELSE 0],
                         Scale)
    IN  RoundToDouble(d.quot, d.rem # 0)

\* the floats of the three-decimal values of [0, 1]
FloatTable == [c \in {10 * k : k \in 0..1000} |-> NearestFloat(c)]

\* the float of a decimal value given in units of 1/Scale, as
\* round(x, 3) returns it and as the literal 0.6 denotes it
FloatOf(c) == IF c \in DOMAIN FloatTable THEN FloatTable[c] ELSE NearestFloat(c)

\* a + b of two floats
FloatAdd(a, b) == RoundToDouble(BigAdd(a, b), FALSE)

\* a / n of a float and a positive int
FloatDiv(a, n) ==
    LET d == BigDivSmall(a, n)
    IN  RoundToDouble(d.quot, d.rem # 0)

\* round(a, 3) of a float, in units of 1/Scale
FloatRound3(a) ==
    LET thousandths == RoundAt(BigMulSmall(a, 1000), FracBits, FALSE)
    IN  10 * (thousandths[FracBits \div LimbBits + 1]
              + Limb * thousandths[FracBits \div LimbBits + 2])

(***************************************************************************)
(* Rasters: the decoded RGB array of an image file                         *)
(***************************************************************************)
PureGreen == <<0, 255, 0>>
MidGray == <<128, 128, 128>>
Brown == <<150, 100, 50>>
PureBlue == <<0, 0, 255>>

Palette == {PureGreen, MidGray, Brown, PureBlue}

Positions(h, w) == (1..h) \X (1..w)

\* the shapes of the enumerated rasters: every side up to MaxSide, as long as
\* the raster has at most 2 * MaxSide pixels
Shapes ==
    {s \in (1..MaxSide) \X (1..MaxSide) : s[1] * s[2] <= 2 * MaxSide}

Rasters ==
    UNION { [height : {s[1]}, width : {s[2]},
             pixels : [Positions(s[1], s[2]) -> Palette]] : s \in Shapes }

UniformRaster(h, w, colour) ==
    [height |-> h, width |-> w, pixels |-> [p \in Positions(h, w) |-> colour]]

\* the colour masks of one pixel <<r, g, b>>
GreenMask(px) == px[2] > px[1] + 20 /\ px[2] > px[3] + 10 /\ px[2] > 80

BrownMask(px) ==
    px[1] > 100 /\ px[2] > 60 /\ px[3] < 80 /\ px[1] > px[2] /\ px[2] > px[3]

BlueMask(px) == px[3] > px[1] + 15 /\ px[3] > px[2] + 10 /\ px[3] > 60

GrayMask(px) ==
    Abs(px[1] - px[2]) < 20 /\ Abs(px[2] - px[3]) < 20 /\ Abs(px[1] - px[3]) < 20

\* the boolean array of a mask over the pixels of a raster
MaskArray(img, colour) ==
    [p \in DOMAIN img.pixels |->
        IF colour = "green" THEN GreenMask(img.pixels[p])
        ELSE IF colour = "brown" THEN BrownMask(img.pixels[p])
        ELSE IF colour = "blue" THEN BlueMask(img.pixels[p])
        ELSE GrayMask(img.pixels[p])]

\* count_nonzero(mask) / total, in 1e-4 units
MaskRatio(img, colour) ==
    LET total == img.height * img.width
        mask == MaskArray(img, colour)
    IN  (Cardinality({p \in DOMAIN mask : mask[p]}) * Scale) \div total

\* np.mean((r + g + b) / 3.0), in hundredths
AvgBrightness(img) ==
    LET total == img.height * img.width
        s == SumOver(DOMAIN img.pixels,
                     [p \in DOMAIN img.pixels |->
                        img.pixels[p][1] + img.pixels[p][2] + img.pixels[p][3]])
    IN  (s * 100) \div (3 * total)

\* np.dot(rgb, [0.2989, 0.5870, 0.1140]) of one pixel, in tenths
Luminance(px) == (2989 * px[1] + 5870 * px[2] + 1140 * px[3]) \div 1000

GrayImg(img) == [p \in DOMAIN img.pixels |-> Luminance(img.pixels[p])]

\* np.var(gray_img): population variance, in hundredths
TextureVariance(img) ==
    LET n == img.height * img.width
        gray == GrayImg(img)
        s1 == SumOver(DOMAIN gray, gray)
        s2 == SumOver(DOMAIN gray, [p \in DOMAIN gray |-> gray[p] * gray[p]])
    IN  (n * s2 - s1 * s1) \div (n * n)

\* np.gradient needs at least two samples along the axis, else ValueError
GradientDefined(img) == img.height >= 2 /\ img.width >= 2

\* twice |np.gradient(f)| at index i of the 1-D slice f[1..n]: one-sided
\* differences at both ends, central differences (halved) inside
TwiceAbsGradient(f, n, i) ==
    IF i = 1 THEN 2 * Abs(f[2] - f[1])
    ELSE IF i = n THEN 2 * Abs(f[n] - f[n - 1])
    ELSE Abs(f[i + 1] - f[i - 1])

\* np.mean(|grad_x| + |grad_y|), in hundredths
EdgeDensity(img) ==
    LET n == img.height * img.width
        gray == GrayImg(img)
        row(r) == [c \in 1..img.width |-> gray[<<r, c>>]]
        col(c) == [r \in 1..img.height |-> gray[<<r, c>>]]
        g == [p \in DOMAIN gray |->
                TwiceAbsGradient(row(p[1]), img.width, p[2])
                + TwiceAbsGradient(col(p[2]), img.height, p[1])]
    IN  (SumOver(DOMAIN gray, g) * 5) \div n

\* the feature vector computed at the top of analyze_image_heuristic
ExtractFeatures(img) ==
    [greenRatio |-> MaskRatio(img, "green"),
     brownRatio |-> MaskRatio(img, "brown"),
     blueRatio |-> MaskRatio(img, "blue"),
     grayRatio |-> MaskRatio(img, "gray"),
     averageBrightness |-> AvgBrightness(img),
     textureVariance |-> TextureVariance(img),
     edgeDensity |-> EdgeDensity(img),
     width |-> img.width,
     height |-> img.height]

(***************************************************************************)
(* Files and paths                                                         *)
(*   A file is absent, corrupt (exists, Image.open raises), a raster given *)
(*   pixel by pixel, or a raster too large to enumerate, given by the      *)
(*   statistics that the feature extraction computes from it ("stats").    *)
(*   A path names a file, relative to the working directory or absolute.   *)
(***************************************************************************)
AbsentFile == [kind |-> "absent"]

CorruptFile == [kind |-> "corrupt"]

RasterFile(img) == [kind |-> "raster", raster |-> img]

StatsFile(fv) == [kind |-> "stats", fv |-> fv]

PathTo(file) == [relative |-> FALSE, file |-> file]

RelPathTo(file) == [relative |-> TRUE, file |-> file]

\* os.path.abspath: a relative path is resolved against the working directory
AbsPath(path) == [path EXCEPT !.relative = FALSE]

\* os.path.exists
PathExists(path) == path.file.kind # "absent"

\* Image.open(...).convert("RGB") and the array statistics succeed
Analysable(path) ==
    \/ path.file.kind = "stats"
    \/ path.file.kind = "raster" /\ GradientDefined(path.file.raster)

\* str(e) of the exception raised inside analyze_image_heuristic
AnalysisError(path) ==
    IF path.file.kind = "absent" THEN "No such file or directory"
    ELSE IF path.file.kind = "corrupt" THEN "cannot identify image file"
    ELSE "Shape of array too small to calculate a numerical gradient"

Features(path) ==
    IF path.file.kind = "raster" THEN ExtractFeatures(path.file.raster)
    ELSE path.file.fv

(***************************************************************************)
(* ai_service.py: analyze_image_heuristic                                  *)
(***************************************************************************)
\* mutant: the keys of the scores dict in alphabetical order
ClassOrderAlphabetical == <<"cutting", "encroachment", "mangrove", "pollution">>

\* insertion order of the keys of the scores dict
ClassOrder == <<"mangrove", "cutting", "pollution", "encroachment">>

\* mutant: the mangrove colour rule without its blueRatio condition
MangroveScoreAnyGreen(fv) ==
    (IF fv.greenRatio > 2500 THEN 4000 + Min(3000, fv.greenRatio) ELSE 0)
    + (IF fv.textureVariance > 50000 THEN 2000 ELSE 0)

MangroveScore(fv) ==
    (IF fv.greenRatio > 2500 /\ fv.blueRatio > 500
        THEN 4000 + Min(3000, fv.greenRatio) ELSE 0)
    + (IF fv.textureVariance > 50000 THEN 2000 ELSE 0)

CuttingScore(fv) ==
    (IF fv.brownRatio > 2000 /\ fv.greenRatio < 1000
        THEN 4000 + Min(3000, fv.brownRatio) ELSE 0)
    + (IF fv.edgeDensity > 1000 THEN 2000 ELSE 0)

PollutionScore(fv) ==
    (IF fv.blueRatio > 4000 THEN 4000 + Min(3000, fv.blueRatio) ELSE 0)
    + (IF fv.grayRatio > 3000 THEN 2000 ELSE 0)

EncroachmentScore(fv) ==
    (IF fv.grayRatio > 3000 THEN 2000 ELSE 0)
    + (IF fv.textureVariance > 50000 THEN 0
       ELSE IF fv.textureVariance < 10000 THEN 3000 ELSE 0)
    + (IF fv.edgeDensity > 1000 THEN 2000 ELSE 0)

Scores(fv) ==
    [mangrove |-> MangroveScore(fv),
     cutting |-> CuttingScore(fv),
     pollution |-> PollutionScore(fv),
     encroachment |-> EncroachmentScore(fv)]

RECURSIVE ArgMaxLastFrom(_, _, _, _)
\* mutant: the last key of largest value is kept
ArgMaxLastFrom(keys, value, i, best) ==
    IF i > Len(keys) THEN best
    ELSE ArgMaxLastFrom(keys, value, i + 1,
                        IF value[keys[i]] >= value[best] THEN keys[i] ELSE best)

RECURSIVE ArgMaxFrom(_, _, _, _)
\* max(keys, key=...): scan keys[i..] keeping the first key of largest value
ArgMaxFrom(keys, value, i, best) ==
    IF i > Len(keys) THEN best
    ELSE ArgMaxFrom(keys, value, i + 1,
                    IF value[keys[i]] > value[best] THEN keys[i] ELSE best)

\* max(scores.keys(), key=lambda k: scores[k])
WinningClass(scores) == ArgMaxFrom(ClassOrder, scores, 2, ClassOrder[1])

\* min(scores[primary_class], 0.95)
CappedScore(scores) == Min(scores[WinningClass(scores)], 9500)

\* mutant: the fallback confidence without its clamp
FallbackConfidenceUnclamped(fv) == 4000 + fv.greenRatio

\* 0.4 + max(0.0, min(0.2, green_ratio))
FallbackConfidence(fv) == 4000 + Max(0, Min(2000, fv.greenRatio))

\* mutant: the override also taken at a confidence of exactly 0.3
PrimaryClassInclusive(fv) ==
    IF CappedScore(Scores(fv)) <= 3000 THEN "unknown"
    ELSE WinningClass(Scores(fv))

\* primary_class after the "all scores are low" override
PrimaryClass(fv) ==
    IF CappedScore(Scores(fv)) < 3000 THEN "unknown"
    ELSE WinningClass(Scores(fv))

\* confidence before round(confidence, 3)
RawConfidence(fv) ==
    IF CappedScore(Scores(fv)) < 3000 THEN FallbackConfidence(fv)
    ELSE CappedScore(Scores(fv))

\* the details dict; round(x, 4) of a ratio and round(x, 2) of a statistic
\* keep every digit the model carries, round(v, 3) of a score does not
SuccessDetails(fv) ==
    [greenRatio |-> fv.greenRatio,
     brownRatio |-> fv.brownRatio,
     blueRatio |-> fv.blueRatio,
     grayRatio |-> fv.grayRatio,
     averageBrightness |-> fv.averageBrightness,
     textureVariance |-> fv.textureVariance,
     edgeDensity |-> fv.edgeDensity,
     dimensions |-> [width |-> fv.width, height |-> fv.height],
     scores |-> [k \in DOMAIN Scores(fv) |-> Round3(Scores(fv)[k])]]

\* mutant: the except branch leaves class_name at its default
AnalysisFailureDefaultClass(path) ==
    [class_name |-> "unknown",
     confidence |-> 0,
     model |-> "python-heuristic-v2",
     timestamp |-> "None",
     details |-> [error |-> AnalysisError(path)]]

\* the ImagePrediction built in the except branch
AnalysisFailure(path) ==
    [class_name |-> "invalid",
     confidence |-> 0,
     model |-> "python-heuristic-v2",
     timestamp |-> "None",
     details |-> [error |-> AnalysisError(path)]]

analyze_image_heuristic(path) ==
    IF Analysable(path)
    THEN [class_name |-> PrimaryClass(Features(path)),
          confidence |-> Round3(RawConfidence(Features(path))),
          model |-> "python-heuristic-v2",
          timestamp |-> "None",
          details |-> SuccessDetails(Features(path))]
    ELSE AnalysisFailure(path)

(***************************************************************************)
(* ai_service.py: classify_images                                          *)
(***************************************************************************)
\* models.get("initialized", False)
ModelsLoaded(registry) ==
    IF "initialized" \in DOMAIN registry THEN registry["initialized"] ELSE FALSE

\* the ImagePrediction appended when os.path.exists fails (model is defaulted)
NotFoundPrediction(abs_path) ==
    [class_name |-> "invalid",
     confidence |-> 0,
     model |-> "python-heuristic-v1",
     timestamp |-> "None",
     details |-> [error |-> "File not found"]]

\* one iteration of the loop over request.image_paths
PredictPath(image_path) ==
    LET abs_path == AbsPath(image_path)
    IN  IF ~PathExists(abs_path) THEN NotFoundPrediction(abs_path)
        ELSE analyze_image_heuristic(abs_path)

RECURSIVE ClassifyLoopSkipMissing(_, _, _)
\* mutant: a path that is not found is skipped instead of reported
ClassifyLoopSkipMissing(image_paths, i, predictions) ==
    IF i > Len(image_paths) THEN predictions
    ELSE ClassifyLoopSkipMissing(image_paths, i + 1,
            IF PathExists(AbsPath(image_paths[i]))
            THEN Append(predictions, PredictPath(image_paths[i]))
            ELSE predictions)

RECURSIVE ClassifyLoopPrepend(_, _, _)
\* mutant: each prediction is inserted at the front of the list
ClassifyLoopPrepend(image_paths, i, predictions) ==
    IF i > Len(image_paths) THEN predictions
    ELSE ClassifyLoopPrepend(image_paths, i + 1,
                             <<PredictPath(image_paths[i])>> \o predictions)

RECURSIVE ClassifyLoop(_, _, _)
\* for image_path in request.image_paths: predictions.append(...)
ClassifyLoop(image_paths, i, predictions) ==
    IF Len(predictions) >= Len(image_paths) THEN predictions
    ELSE ClassifyLoop(image_paths, i + 1,
                      Append(predictions, PredictPath(image_paths[i])))

\* mutant: the invalid predictions are not filtered out
ValidPredictionsUnfiltered(predictions) == predictions

\* [p for p in predictions if p.class_name != "invalid"]
ValidPredictions(predictions) ==
    SelectSeq(predictions, LAMBDA p : p.class_name # "invalid")

\* how the interpreter adds the floats handed to sum(): CPython before 3.12
\* adds them one after the other, CPython 3.12 and later compensates the
\* rounding errors and returns, for the totals met here, the float nearest
\* to the exact total
Summations == {"sequential", "compensated"}

RECURSIVE RunningTotals(_, _, _)
\* total = total + p.confidence over preds[i..], each addition rounded:
\* the totals after 0, 1, 2, ... additions
RunningTotals(preds, i, totals) ==
    IF Len(totals) > Len(preds) THEN totals
    ELSE RunningTotals(preds, i + 1,
            Append(totals, FloatAdd(totals[Len(totals)],
                                    FloatOf(preds[i].confidence))))

RECURSIVE ExactTotals(_, _, _)
\* the exact totals of the floats p.confidence over preds[i..]
ExactTotals(preds, i, totals) ==
    IF Len(totals) > Len(preds) THEN totals
    ELSE ExactTotals(preds, i + 1,
            Append(totals, BigAdd(totals[Len(totals)],
                                  FloatOf(preds[i].confidence))))

\* sum(p.confidence for p in valid_predictions)
SumConfidence(preds, summation) ==
    IF summation = "sequential"
    THEN RunningTotals(preds, 1, <<BigZero>>)[Len(preds) + 1]
    ELSE RoundToDouble(ExactTotals(preds, 1, <<BigZero>>)[Len(preds) + 1], FALSE)

\* sum(...) / len(valid_predictions) if valid_predictions else 0.0
AvgConfidence(valid, summation) ==
    IF valid # <<>> THEN FloatDiv(SumConfidence(valid, summation), Len(valid))
    ELSE BigZero

Range(seq) == {seq[i] : i \in DOMAIN seq}

RECURSIVE CountVotes(_, _, _)
\* class_counts[name] = class_counts.get(name, 0) + 1 over names[i..];
\* a dict keeps its keys in insertion order: keys is that order
CountVotes(names, i, counts) ==
    IF i > Len(names) THEN counts
    ELSE LET name == names[i]
         IN  IF name \in Range(counts.keys)
             THEN CountVotes(names, i + 1,
                    [keys |-> counts.keys,
                     count |-> [counts.count EXCEPT ![name] = @ + 1]])
             ELSE CountVotes(names, i + 1,
                    [keys |-> Append(counts.keys, name),
                     count |-> (name :> 1) @@ counts.count])

EmptyCounts == [keys |-> <<>>, count |-> <<>>]

\* max(class_counts.keys(), key=...) if class_counts else "unknown"
VoteWinner(counts) ==
    IF counts.keys = <<>> THEN "unknown"
    ELSE ArgMaxFrom(counts.keys, counts.count, 2, counts.keys[1])

ClassNames(preds) == [i \in DOMAIN preds |-> preds[i].class_name]

\* mutant: the comparison made on the rounded mean
IsValidOfRounded(avg) == FloatRound3(avg) > 6000

\* is_valid = avg_confidence > 0.6
IsValid(avg) == BigGreater(avg, FloatOf(6000))

\* the ImageClassificationResponse of an accepted request
BatchResult(image_paths, summation) ==
    LET predictions == ClassifyLoop(image_paths, 1, <<>>)
        valid_predictions == ValidPredictions(predictions)
        avg_confidence == AvgConfidence(valid_predictions, summation)
        class_counts == CountVotes(ClassNames(valid_predictions), 1, EmptyCounts)
    IN  [predictions |-> predictions,
         averageConfidence |-> FloatRound3(avg_confidence),
         primaryClass |-> VoteWinner(class_counts),
         isValid |-> IsValid(avg_confidence),
         totalImages |-> Len(image_paths),
         validImages |-> Len(valid_predictions)]

HttpError(status, detail) == [kind |-> "error", status |-> status, detail |-> detail]

NotRejected == [kind |-> "none"]

\* mutant: the handler without its 503 guard
RejectionUngated(registry, image_paths) ==
    IF image_paths = <<>> THEN HttpError(400, "No image paths provided")
    ELSE NotRejected

\* the two HTTPException guards at the top of the handler
Rejection(registry, image_paths) ==
    IF ~ModelsLoaded(registry) THEN HttpError(503, "AI models not loaded")
    ELSE IF image_paths = <<>> THEN HttpError(400, "No image paths provided")
    ELSE NotRejected

\* the handler of POST /classify
classify_images(registry, image_paths, summation) ==
    IF Rejection(registry, image_paths).kind = "error"
    THEN Rejection(registry, image_paths)
    ELSE [kind |-> "ok", body |-> BatchResult(image_paths, summation)]

\* the calls of analyze_image_heuristic made by the handler, in order
AnalysedPaths(registry, image_paths) ==
    IF Rejection(registry, image_paths).kind = "error" THEN <<>>
    ELSE SelectSeq([i \in DOMAIN image_paths |-> AbsPath(image_paths[i])],
                   PathExists)

(***************************************************************************)
(* ai_worker.py                                                            *)
(***************************************************************************)
\* Image.open(path).convert("RGB") succeeds; the worker takes no gradient
WorkerAnalysable(path) == path.file.kind \in {"raster", "stats"}

WorkerClass(fv) ==
    IF fv.greenRatio > 2500 /\ fv.blueRatio > 500 THEN "mangrove"
    ELSE IF fv.brownRatio > 2000 /\ fv.greenRatio < 1000 THEN "cutting"
    ELSE IF fv.blueRatio > 4000 THEN "water_pollution"
    ELSE "unknown"

WorkerRawConfidence(fv) ==
    IF fv.greenRatio > 2500 /\ fv.blueRatio > 500
        THEN 6000 + Min(3000, fv.greenRatio)
    ELSE IF fv.brownRatio > 2000 /\ fv.greenRatio < 1000
        THEN 5500 + Min(2500, fv.brownRatio)
    ELSE IF fv.blueRatio > 4000
        THEN 6000 + Min(2500, fv.blueRatio)
    ELSE 4000 + Max(0, Min(2000, fv.greenRatio))

\* the statistics ai_worker.analyze_image computes: no gray mask, no gradient
WorkerFeatures(path) ==
    IF path.file.kind = "raster"
    THEN [greenRatio |-> MaskRatio(path.file.raster, "green"),
          brownRatio |-> MaskRatio(path.file.raster, "brown"),
          blueRatio |-> MaskRatio(path.file.raster, "blue"),
          averageBrightness |-> AvgBrightness(path.file.raster),
          width |-> path.file.raster.width,
          height |-> path.file.raster.height]
    ELSE path.file.fv

\* ai_worker.analyze_image; its dicts carry the class under the key "class",
\* written class_name here as in the service
analyze_image(path) ==
    IF WorkerAnalysable(path)
    THEN LET fv == WorkerFeatures(path)
         IN  [class_name |-> WorkerClass(fv),
              confidence |-> Round3(Min(WorkerRawConfidence(fv), 9800)),
              model |-> "python-heuristic-v1",
              timestamp |-> "None",
              details |-> [greenRatio |-> fv.greenRatio,
                           brownRatio |-> fv.brownRatio,
                           blueRatio |-> fv.blueRatio,
                           averageBrightness |-> fv.averageBrightness,
                           dimensions |-> [width |-> fv.width,
                                           height |-> fv.height]]]
    ELSE [class_name |-> "invalid",
          confidence |-> 0,
          model |-> "python-heuristic-v1",
          error |-> AnalysisError(path)]

RECURSIVE WorkerLoop(_, _, _)
\* for p in image_paths: predictions.append(analyze_image(abspath(p)))
WorkerLoop(image_paths, i, predictions) ==
    IF i > Len(image_paths) THEN predictions
    ELSE WorkerLoop(image_paths, i + 1,
                    Append(predictions, analyze_image(AbsPath(image_paths[i]))))

\* the dict written to stdout by the classify_images action
WorkerBatch(image_paths, summation) ==
    LET predictions == WorkerLoop(image_paths, 1, <<>>)
        valid == ValidPredictions(predictions)
        avg_conf == AvgConfidence(valid, summation)
        counts == CountVotes(ClassNames(valid), 1, EmptyCounts)
    IN  [predictions |-> predictions,
         averageConfidence |-> FloatRound3(avg_conf),
         primaryClass |-> VoteWinner(counts),
         isValid |-> BigGreater(avg_conf, FloatOf(6000)),
         totalImages |-> Len(image_paths),
         validImages |-> Len(valid)]

\* payload.get("image_paths", [])
PayloadPaths(payload) ==
    IF "image_paths" \in DOMAIN payload THEN payload.image_paths ELSE <<>>

\* ai_worker.main: stdout and exit status for one stdin payload
WorkerMainOutput(payload, summation) ==
    IF payload.json = FALSE
        THEN [kind |-> "error", error |-> "invalid input", exit |-> 1]
    ELSE IF payload.action = "classify_images"
        THEN [kind |-> "ok", body |-> WorkerBatch(PayloadPaths(payload), summation),
              exit |-> 0]
    ELSE [kind |-> "error", error |-> "unsupported action", exit |-> 0]

(***************************************************************************)
(* ai_service.py: lifespan                                                 *)
(***************************************************************************)
\* models["initialized"] = True, or = False in the except branch
SetInitialized(registry, loaded) == ("initialized" :> loaded) @@ registry

\* models.clear()
ClearedRegistry == <<>>

(***************************************************************************)
(* Inputs                                                                  *)
(***************************************************************************)
\* the statistics of a 100 x 100 raster: ratios in 1e-4, the rest in 1e-2
Stats(green, brown, blue, gray, variance, edges) ==
    [greenRatio |-> green, brownRatio |-> brown, blueRatio |-> blue,
     grayRatio |-> gray, averageBrightness |-> 12800,
     textureVariance |-> variance, edgeDensity |-> edges,
     width |-> 100, height |-> 100]

\* green, brown and blue pixels are disjoint, gray pixels are neither green
\* nor brown; a constant luminance field is the one without gradient
Realizable(fv) ==
    /\ fv.greenRatio + fv.brownRatio + fv.blueRatio <= Scale
    /\ fv.greenRatio + fv.brownRatio + fv.grayRatio <= Scale
    /\ (fv.textureVariance = 0) <=> (fv.edgeDensity = 0)

GreenGrid == {0, 999, 1000, 1500, 2000, 2500, 2501, 3000, 10000}
BrownGrid == {0, 2000, 2001, 2505, 3000, 10000}
BlueGrid == {0, 500, 501, 4000, 4001, 10000}
GrayGrid == {0, 3000, 3001, 10000}
VarianceGrid == {0, 9999, 10000, 50000, 50001}
EdgeGrid == {0, 1000, 1001}

StatsGrid ==
    { fv \in { Stats(g, br, bl, gy, v, e) :
                 g \in GreenGrid, br \in BrownGrid, bl \in BlueGrid,
                 gy \in GrayGrid, v \in VarianceGrid, e \in EdgeGrid } :
        Realizable(fv) }

\* every single file the model can put behind a path
SinglePaths ==
    {PathTo(AbsentFile), PathTo(CorruptFile)}
    \cup {PathTo(RasterFile(img)) : img \in Rasters}
    \cup {PathTo(StatsFile(fv)) : fv \in StatsGrid}

\* green.png: the uniformly pure-green square rasters of every size
GreenPngs ==
    { RelPathTo(RasterFile(UniformRaster(n, n, PureGreen))) : n \in 1..MaxSide }
MissingPng == RelPathTo(AbsentFile)
CorruptPng == PathTo(CorruptFile)
MangrovePng == PathTo(StatsFile(Stats(5000, 0, 1000, 0, 60000, 500)))
CuttingPng == PathTo(StatsFile(Stats(0, 2010, 0, 0, 20000, 300)))
FallowPng == PathTo(StatsFile(Stats(1000, 0, 0, 0, 20000, 300)))
MeadowPng == PathTo(StatsFile(Stats(2000, 0, 0, 0, 20000, 300)))

\* the files of the batches
BatchPaths ==
    GreenPngs \cup {MissingPng, CorruptPng, MangrovePng, CuttingPng, FallowPng}

PathLists == UNION { [1..n -> BatchPaths] : n \in 0..MaxBatch }

HttpRequests == { [to |-> "http", image_paths |-> l] : l \in PathLists }

WorkerPayloads ==
    { [to |-> "worker", json |-> TRUE, action |-> "classify_images",
       image_paths |-> l] : l \in PathLists }
    \cup { [to |-> "worker", json |-> TRUE, action |-> "classify_images"],
           [to |-> "worker", json |-> TRUE, action |-> "detect_anomalies"],
           [to |-> "worker", json |-> FALSE] }

\* n times the path p
Copies(p, n) == [i \in 1..n |-> p]

\* the long batches: copies of two files no rule fires on, with or without a
\* missing file and a mangrove image after them
LongPathLists ==
    { Copies(MeadowPng, m) \o Copies(FallowPng, f) \o tail :
        m \in 0..MaxCopies, f \in 0..1,
        tail \in {<<>>, <<MissingPng>>, <<MangrovePng>>} }
    \ {<<>>}

NoResponse == [kind |-> "none"]

(***************************************************************************)
(* The service and the worker, with one message in flight                  *)
(***************************************************************************)
Init ==
    /\ models = <<>>
    /\ pc = "created"
    /\ inbox \in HttpRequests \cup WorkerPayloads
    /\ handled = FALSE
    /\ ready = FALSE
    /\ analysed = <<>>
    /\ response = NoResponse

\* lifespan up to the yield: the load succeeds, or raises and is caught
Startup ==
    /\ pc \in {"created", "stopped"}
    /\ \E loaded \in BOOLEAN : models' = SetInitialized(models, loaded)
    /\ pc' = "serving"
    /\ UNCHANGED <<inbox, handled, ready, analysed, response>>

\* lifespan after the yield
Shutdown ==
    /\ pc = "serving"
    /\ models' = ClearedRegistry
    /\ pc' = "stopped"
    /\ UNCHANGED <<inbox, handled, ready, analysed, response>>

\* POST /classify: the handler has no await, it runs in one step
HttpClassify ==
    /\ ~handled
    /\ inbox.to = "http"
    /\ ready' = ModelsLoaded(models)
    /\ \E summation \in Summations :
          response' = classify_images(models, inbox.image_paths, summation)
    /\ analysed' = AnalysedPaths(models, inbox.image_paths)
    /\ handled' = TRUE
    /\ UNCHANGED <<models, pc, inbox>>

\* one run of the worker process on its stdin payload
WorkerMain ==
    /\ ~handled
    /\ inbox.to = "worker"
    /\ \E summation \in Summations :
          response' = WorkerMainOutput(inbox, summation)
    /\ handled' = TRUE
    /\ UNCHANGED <<models, pc, inbox, ready, analysed>>

Next == Startup \/ Shutdown \/ HttpClassify \/ WorkerMain

Spec == Init /\ [][Next]_vars

(***************************************************************************)
(* One image through a started service: the per-image function             *)
(***************************************************************************)
InitImage ==
    /\ models = SetInitialized(<<>>, TRUE)
    /\ pc = "serving"
    /\ inbox \in { [to |-> "http", image_paths |-> <<p>>] : p \in SinglePaths }
    /\ handled = FALSE
    /\ ready = FALSE
    /\ analysed = <<>>
    /\ response = NoResponse

NextImage == HttpClassify

SpecImage == InitImage /\ [][NextImage]_vars

(***************************************************************************)
(* One long batch through a started service: the batch statistics          *)
(***************************************************************************)
InitRepeat ==
    /\ models = SetInitialized(<<>>, TRUE)
    /\ pc = "serving"
    /\ inbox \in { [to |-> "http", image_paths |-> l] : l \in LongPathLists }
    /\ handled = FALSE
    /\ ready = FALSE
    /\ analysed = <<>>
    /\ response = NoResponse

NextRepeat == HttpClassify

SpecRepeat == InitRepeat /\ [][NextRepeat]_vars

(***************************************************************************)
(* Properties                                                              *)
(***************************************************************************)
\* the service answered the request in flight with a BatchResult
HttpOk == handled /\ inbox.to = "http" /\ response.kind = "ok"

\* the worker answered the payload in flight with a BatchResult
WorkerOk == handled /\ inbox.to = "worker" /\ response.kind = "ok"

BatchAnswered == HttpOk \/ WorkerOk

\* the path list of the message in flight
InboxPaths == PayloadPaths(inbox)

\* the indices of the non-invalid predictions of the answer
ValidIndices ==
    {i \in DOMAIN response.body.predictions :
        response.body.predictions[i].class_name # "invalid"}

\* the file behind path i is a uniformly pure-green raster
PureGreenAt(i) ==
    /\ InboxPaths[i].file.kind = "raster"
    /\ \A p \in DOMAIN InboxPaths[i].file.raster.pixels :
          InboxPaths[i].file.raster.pixels[p] = PureGreen

\* C1 as stated: the service classifies every uniformly pure-green image as
\* mangrove with confidence at least 0.4 (read for images of at least 2 x 2
\* pixels, the ones the statistics are defined on)
C1_PureGreenIsMangrove ==
    HttpOk =>
        \A i \in DOMAIN InboxPaths :
            (PureGreenAt(i) /\ GradientDefined(InboxPaths[i].file.raster)) =>
                /\ response.body.predictions[i].class_name = "mangrove"
                /\ response.body.predictions[i].confidence >= 4000

\* C1 amended: a uniformly pure-green image of at least 2 x 2 pixels has
\* blueRatio 0, so the mangrove rule does not fire; only the low-texture rule
\* does, and the service answers encroachment with confidence exactly 0.3
C1_PureGreenIsEncroachment ==
    HttpOk =>
        \A i \in DOMAIN InboxPaths :
            (PureGreenAt(i) /\ GradientDefined(InboxPaths[i].file.raster)) =>
                /\ response.body.predictions[i].class_name = "encroachment"
                /\ response.body.predictions[i].confidence = 3000

C1_Witness ==
    /\ HttpOk
    /\ Len(InboxPaths) = 2
    /\ PureGreenAt(1)
    /\ InboxPaths[2] = MissingPng
    /\ response.body.predictions[1].class_name = "encroachment"
    /\ response.body.predictions[2].class_name = "invalid"

\* C2 as stated: isValid is true exactly when the rounded averageConfidence
\* field of the same result is greater than 0.6
C2_IsValidIffFieldAbove ==
    BatchAnswered =>
        (response.body.isValid <=> response.body.averageConfidence > 6000)

\* C2 amended: isValid is true exactly when the unrounded mean confidence of
\* the non-invalid predictions, as the interpreter computes it in floats, is
\* greater than 0.6; the rounded averageConfidence field is then at least
\* 0.6, and may be exactly 0.6
C2_IsValidIffMeanAbove ==
    BatchAnswered =>
        LET valid == SelectSeq(response.body.predictions,
                               LAMBDA p : p.class_name # "invalid")
        IN  /\ \E summation \in Summations :
                  response.body.isValid
                      <=> (valid # <<>>
                           /\ BigGreater(FloatDiv(SumConfidence(valid, summation),
                                                  Len(valid)),
                                         FloatOf(6000)))
            /\ response.body.isValid => response.body.averageConfidence >= 6000
            /\ response.body.averageConfidence > 6000 => response.body.isValid

C2_Witness ==
    /\ HttpOk
    /\ response.body.isValid
    /\ response.body.averageConfidence = 6000

\* the message in flight asks to classify an empty path list
EmptyClassifyRequest ==
    \/ inbox.to = "http" /\ inbox.image_paths = <<>>
    \/ /\ inbox.to = "worker"
       /\ inbox.json
       /\ inbox.action = "classify_images"
       /\ PayloadPaths(inbox) = <<>>

\* C3: an empty path list is rejected with a request-level error at every
\* entry point, no BatchResult is returned
C3_EmptyListRejected ==
    (handled /\ EmptyClassifyRequest) => response.kind = "error"

\* C4: a classify request that finds the initialized flag not true is answered
\* 503 and no image is analysed; images are analysed only under a true flag
C4_GatedByInitialized ==
    (handled /\ inbox.to = "http") =>
        /\ ~ready => (/\ response.kind = "error"
                      /\ response.status = 503
                      /\ analysed = <<>>)
        /\ analysed # <<>> => ready
        /\ response.kind = "ok" => ready

C4_Witness ==
    /\ handled
    /\ inbox.to = "http"
    /\ ~ready
    /\ \E i \in DOMAIN inbox.image_paths : PathExists(inbox.image_paths[i])
    /\ response.kind = "error"
    /\ response.status = 503
    /\ analysed = <<>>

\* C5: every prediction is either invalid with confidence 0 and no score map,
\* or successful with a confidence in [0, 0.95] before and after rounding
C5_ConfidenceRange ==
    HttpOk =>
        \A i \in DOMAIN response.body.predictions :
            LET pred == response.body.predictions[i]
            IN  IF pred.class_name = "invalid"
                THEN /\ pred.confidence = 0
                     /\ "scores" \notin DOMAIN pred.details
                ELSE /\ pred.confidence \in 0..9500
                     /\ RawConfidence(Features(AbsPath(InboxPaths[i]))) \in 0..9500
                     /\ "scores" \in DOMAIN pred.details

C5_Witness ==
    /\ HttpOk
    /\ response.body.predictions[1].class_name = "mangrove"
    /\ response.body.predictions[1].confidence = 9000
    /\ RawConfidence(Features(AbsPath(InboxPaths[1]))) = 9000

\* C6: averageConfidence is the mean confidence of the non-invalid
\* predictions to the nearest 0.001, and 0.0 when there is none
C6_AverageOverValid ==
    BatchAnswered =>
        LET preds == response.body.predictions
            n == Cardinality(ValidIndices)
            total == SumOver(ValidIndices,
                             [i \in ValidIndices |-> preds[i].confidence])
            avg == response.body.averageConfidence
        IN  IF n = 0 THEN avg = 0
            ELSE /\ avg % 10 = 0
                 /\ 2 * Abs(n * avg - total) <= 10 * n

C6_Witness ==
    /\ HttpOk
    /\ response.body.totalImages = 3
    /\ Cardinality(ValidIndices) = 2
    /\ response.body.predictions[1].confidence = 9000
    /\ response.body.predictions[3].confidence = 3000
    /\ response.body.averageConfidence = 6000

\* C7: an accepted batch has one prediction per input path, and
\* validImages + (number of invalid predictions) = totalImages
C7_OnePredictionPerPath ==
    HttpOk =>
        LET preds == response.body.predictions
            invalid == {i \in DOMAIN preds : preds[i].class_name = "invalid"}
        IN  /\ Len(preds) = Len(InboxPaths)
            /\ response.body.totalImages = Len(InboxPaths)
            /\ response.body.validImages + Cardinality(invalid)
                  = response.body.totalImages

C7_Witness ==
    /\ HttpOk
    /\ Len(InboxPaths) = 3
    /\ \E i \in 1..3 : InboxPaths[i] = MissingPng
    /\ \E i \in 1..3 : InboxPaths[i] = CorruptPng
    /\ response.body.validImages = 1
    /\ Len(response.body.predictions) = 3

\* C8: predictions[i] is the prediction paths[i] gets in a batch of one
C8_IndexAligned ==
    HttpOk =>
        \A i \in DOMAIN InboxPaths :
            /\ i \in DOMAIN response.body.predictions
            /\ \A summation \in Summations :
                  response.body.predictions[i]
                      = BatchResult(<<InboxPaths[i]>>, summation).predictions[1]

C8_Witness ==
    /\ HttpOk
    /\ Len(InboxPaths) = 3
    /\ InboxPaths[2] = MissingPng
    /\ response.body.predictions[1].class_name = "cutting"
    /\ response.body.predictions[2].class_name = "invalid"
    /\ response.body.predictions[3].class_name = "mangrove"

\* the number of non-invalid predictions of the answer named c
Votes(c) ==
    Cardinality({i \in ValidIndices : response.body.predictions[i].class_name = c})

\* the index of the first non-invalid prediction named c
FirstSeen(c) ==
    CHOOSE i \in ValidIndices :
        /\ response.body.predictions[i].class_name = c
        /\ \A j \in ValidIndices :
              response.body.predictions[j].class_name = c => i <= j

\* C9: primaryClass has the highest count among the non-invalid predictions,
\* the earliest first occurrence among the classes of that count, is unknown
\* when there is no non-invalid prediction, and is never invalid
C9_MajorityVote ==
    BatchAnswered =>
        LET names == {response.body.predictions[i].class_name : i \in ValidIndices}
            primary == response.body.primaryClass
        IN  /\ primary # "invalid"
            /\ IF names = {} THEN primary = "unknown"
               ELSE /\ primary \in names
                    /\ \A d \in names :
                          \/ Votes(d) < Votes(primary)
                          \/ /\ Votes(d) = Votes(primary)
                             /\ FirstSeen(primary) <= FirstSeen(d)

C9_Witness ==
    /\ HttpOk
    /\ Len(InboxPaths) = 3
    /\ response.body.predictions[1].class_name = "invalid"
    /\ response.body.predictions[2].class_name = "cutting"
    /\ response.body.predictions[3].class_name = "mangrove"
    /\ response.body.primaryClass = "cutting"

\* C10: in an accepted batch a missing file and a file that fails to decode
\* each yield, at their own index, an invalid prediction with confidence 0 and
\* an error message; the batch is still answered and the decodable files are
\* still classified
C10_FailuresStayLocal ==
    (handled /\ inbox.to = "http" /\ ready /\ inbox.image_paths # <<>>) =>
        /\ response.kind = "ok"
        /\ Len(response.body.predictions) = Len(inbox.image_paths)
        /\ \A i \in DOMAIN inbox.image_paths :
              LET pred == response.body.predictions[i]
                  path == AbsPath(inbox.image_paths[i])
              IN  /\ (~PathExists(path) \/ path.file.kind = "corrupt") =>
                        /\ pred.class_name = "invalid"
                        /\ pred.confidence = 0
                        /\ "error" \in DOMAIN pred.details
                  /\ Analysable(path) => pred.class_name # "invalid"

C10_Witness ==
    /\ HttpOk
    /\ Len(InboxPaths) = 3
    /\ InboxPaths[1] = MissingPng
    /\ InboxPaths[2] = CorruptPng
    /\ InboxPaths[3] = MangrovePng
    /\ response.body.predictions[1].details.error = "File not found"
    /\ response.body.predictions[2].details.error = "cannot identify image file"
    /\ response.body.predictions[3].class_name = "mangrove"

\* position of a class in the order mangrove, cutting, pollution, encroachment
C11_Rank == [mangrove |-> 1, cutting |-> 2, pollution |-> 3, encroachment |-> 4]

\* C11: before the low-score fallback the class of a successful prediction is
\* the class of largest score, and among classes of equal largest score the
\* earliest of mangrove, cutting, pollution, encroachment; a named class in
\* the answer is that class, and mangrove wins a tie with pollution
C11_EarliestMaxWins ==
    (HttpOk /\ response.body.predictions[1].class_name # "invalid") =>
        LET fv == Features(AbsPath(InboxPaths[1]))
            s == Scores(fv)
            w == WinningClass(s)
            pred == response.body.predictions[1]
        IN  /\ w \in DOMAIN C11_Rank
            /\ \A c \in DOMAIN C11_Rank :
                  /\ s[c] <= s[w]
                  /\ C11_Rank[c] < C11_Rank[w] => s[c] < s[w]
            /\ pred.class_name # "unknown" => pred.class_name = w
            /\ (s.mangrove = s.pollution
                  /\ \A c \in DOMAIN C11_Rank : s[c] <= s.mangrove
                  /\ s.mangrove >= 3000)
                  => pred.class_name = "mangrove"

C11_Witness ==
    /\ HttpOk
    /\ response.body.predictions[1].class_name = "mangrove"
    /\ response.body.predictions[1].confidence = 7000
    /\ Scores(Features(AbsPath(InboxPaths[1]))).mangrove = 7000
    /\ Scores(Features(AbsPath(InboxPaths[1]))).pollution = 7000

\* C12: a successful prediction is 'unknown' exactly when the winning score,
\* capped at 0.95, is below 0.3, and its confidence is then
\* 0.4 + clamp(greenRatio, 0, 0.2); at 0.3 or above the winning class and its
\* capped score are kept
C12_UnknownBelowThreshold ==
    (HttpOk /\ response.body.predictions[1].class_name # "invalid") =>
        LET fv == Features(AbsPath(InboxPaths[1]))
            s == Scores(fv)
            top == CHOOSE v \in {s[c] : c \in DOMAIN s} :
                       \A c \in DOMAIN s : s[c] <= v
            capped == IF top > 9500 THEN 9500 ELSE top
            clamp == IF fv.greenRatio < 0 THEN 0
                     ELSE IF fv.greenRatio > 2000 THEN 2000
                     ELSE fv.greenRatio
            pred == response.body.predictions[1]
        IN  /\ (pred.class_name = "unknown") <=> (capped < 3000)
            /\ capped < 3000 =>
                  /\ RawConfidence(fv) = 4000 + clamp
                  /\ pred.confidence = Round3(4000 + clamp)
            /\ capped >= 3000 =>
                  /\ pred.class_name = WinningClass(s)
                  /\ s[pred.class_name] = top
                  /\ RawConfidence(fv) = capped
                  /\ pred.confidence = Round3(capped)

C12_Witness ==
    /\ HttpOk
    /\ response.body.predictions[1].class_name = "unknown"
    /\ response.body.predictions[1].confidence = 5500
    /\ Features(AbsPath(InboxPaths[1])).greenRatio = 1500
    /\ Scores(Features(AbsPath(InboxPaths[1]))).pollution = 2000

\* the four class scores stay within the sums of their rules, so that the
\* 0.95 cap changes none of them, and the confidence of a prediction lies in
\* [0.3, 0.9] under a named class and in [0.4, 0.6] under 'unknown'
C13_ScoreBounds ==
    HttpOk =>
        \A i \in DOMAIN response.body.predictions :
            LET pred == response.body.predictions[i]
                s == Scores(Features(AbsPath(InboxPaths[i])))
            IN  pred.class_name # "invalid" =>
                    /\ s.mangrove <= 9000
                    /\ s.cutting <= 9000
                    /\ s.pollution <= 9000
                    /\ s.encroachment <= 7000
                    /\ \A c \in DOMAIN s : Min(s[c], 9500) = s[c]
                    /\ pred.class_name \in DOMAIN s => pred.confidence \in 3000..9000
                    /\ pred.class_name = "unknown" => pred.confidence \in 4000..6000

\* C13: every class score is at most 0.9 (encroachment 0.7) and untouched by
\* the 0.95 cap, a named class has confidence in [0.3, 0.9] and 'unknown' in
\* [0.4, 0.6]; consequently a batch whose non-invalid predictions are all
\* 'unknown' is never answered with isValid = true
C13_AllUnknownNeverValid ==
    /\ C13_ScoreBounds
    /\ (HttpOk /\ \A i \in DOMAIN response.body.predictions :
                     response.body.predictions[i].class_name
                         \in {"unknown", "invalid"})
          => ~response.body.isValid

====
